---- MODULE Spec2Model ----
(***************************************************************************)
(* Model of the two screens of the food-review mobile client:              *)
(*   - the review editor, mobile/app/reviews/create.tsx (CreateReview)     *)
(*   - the friends feed, unnamed/part_000 (HomeTab)                        *)
(* Each screen is a React component with its own state; the async handlers *)
(* (handleSubmit, fetchFriendsReviews) are modelled as call instances that *)
(* suspend at every await and are resumed by the environment.              *)
(***************************************************************************)
EXTENDS Integers, Sequences, FiniteSets, TLC

VARIABLES
  dishes,        \* editor: useState<string[]>([''])
  rating,        \* editor: useState(0)
  isSubmitting,  \* editor: useState(false)
  mounted,       \* editor: the screen is on top of the navigation stack
  calls,         \* editor: the handleSubmit invocations, one record per slot
  alerts,        \* editor: the native alert dialogs queued for display
  goBacks,       \* editor: router.back() signals issued by the success notice
  reviews,       \* feed: useState<Review[]>([])
  loading,       \* feed: useState(true)
  refreshing,    \* feed: useState(false)
  feedCalls,     \* feed: the fetchFriendsReviews invocations
  lastLoaded,    \* feed: history, the array of the last load that completed successfully
  createdAt,     \* date label: the review's createdAt, in ms
  now,           \* date label: the clock read by formatDate, in ms
  label          \* date label: what formatDate returned

editorVars == <<dishes, rating, isSubmitting, mounted, calls, alerts, goBacks>>
feedVars == <<reviews, loading, refreshing, feedCalls, lastLoaded>>
dateVars == <<createdAt, now, label>>
vars == <<editorVars, feedVars, dateVars>>

----------------------------------------------------------------------------
(* Bounds of the model *)

\* dish slots the user is followed to (the code has no upper limit)
MaxDishes == 3
\* handleSubmit invocations that can be suspended at the same time
MaxCalls == 2
\* fetchFriendsReviews invocations that can be suspended at the same time
MaxFeedCalls == 2
\* the farthest createdAt from now, in days, that formatDate is fed
MaxDays == 10

----------------------------------------------------------------------------
(* Strings are sequences of one-character strings, so that trim() is computed *)

Whitespace == {" ", "\t"}

\* the texts a dish input is given: empty, whitespace only, plain, padded
DishTexts == { <<>>, <<" ", "\t">>, <<"F">>, <<" ", "B", " ">> }

Stars == 1..5

RECURSIVE TrimStart(_)
TrimStart(s) ==
  IF s # <<>> /\ Head(s) \in Whitespace THEN TrimStart(Tail(s)) ELSE s

RECURSIVE TrimEnd(_)
TrimEnd(s) ==
  IF s # <<>> /\ s[Len(s)] \in Whitespace
  THEN TrimEnd(SubSeq(s, 1, Len(s) - 1))
  ELSE s

\* String.prototype.trim
Trim(s) == TrimEnd(TrimStart(s))

\* d => d.trim() !== ''
IsFilled(d) == Trim(d) # <<>>

\* mutant: the payload carries the trimmed names
FilledDishesTrimmed(ds) ==
  LET kept == SelectSeq(ds, IsFilled) IN [i \in 1..Len(kept) |-> Trim(kept[i])]

\* const filledDishes = dishes.filter(d => d.trim() !== '')
FilledDishes(ds) == SelectSeq(ds, IsFilled)

----------------------------------------------------------------------------
(* Messages, alerts, HTTP responses and JSON *)

Text(s) == [kind |-> "text", text |-> s, status |-> 0]

StatusText(st) ==
  CASE st = 200 -> "OK"
    [] st = 400 -> "Bad Request"
    [] st = 500 -> "Internal Server Error"

\* `Server error: ${response.status} ${response.statusText}`
ServerErrorMessage(st) == [kind |-> "generic", text |-> StatusText(st), status |-> st]

OkStatuses == {200}
ErrStatuses == {400, 500}

\* the bodies the Review Service API is followed to send
Bodies ==
  { "",
    "Internal error",
    "{\"message\":\"Duplicate review\"}",
    "{\"message\":\"\"}",
    "{\"id\":\"r1\"}",
    "null",
    "[]" }

JObject(has, msg) == [type |-> "object", hasMessage |-> has, message |-> msg]
JNull == [type |-> "null", hasMessage |-> FALSE, message |-> ""]
JArray == [type |-> "array", hasMessage |-> FALSE, message |-> ""]

\* JSON.parse on the bodies above: whether it returns, and what
JsonParses(body) == body \notin {"", "Internal error"}

JsonParse(body) ==
  CASE body = "{\"message\":\"Duplicate review\"}" -> JObject(TRUE, "Duplicate review")
    [] body = "{\"message\":\"\"}" -> JObject(TRUE, "")
    [] body = "{\"id\":\"r1\"}" -> JObject(FALSE, "")
    [] body = "null" -> JNull
    [] body = "[]" -> JArray

SyntaxErrorMessage == Text("JSON Parse error")
TypeErrorMessage == Text("Cannot read property 'message' of null")

\* what an await can reject with: an Error, or a value that is no Error
NetworkError == [isError |-> TRUE, message |-> Text("Network request failed")]
NonError == [isError |-> FALSE, message |-> Text("")]
Thrown == {NetworkError, NonError}

NoOnPress == "none"
BackOnPress == "back"

Alert(title, message, onPress) ==
  [title |-> title, message |-> message, onPress |-> onPress]

EmptyDishListAlert ==
  Alert("Missing Info", Text("Please enter at least one dish name"), NoOnPress)

NoRatingAlert ==
  Alert("Missing Info", Text("Please rate your experience"), NoOnPress)

NotAuthenticatedAlert ==
  Alert("Error", Text("You must be logged in to submit a review"), NoOnPress)

\* mutant: the success notice has no button handler
SuccessAlertNoBack ==
  Alert("Success", Text("Your review has been submitted!"), NoOnPress)

SuccessAlert ==
  Alert("Success", Text("Your review has been submitted!"), BackOnPress)

\* mutant: the error notice pops the screen too
ErrorAlertBack(message) == Alert("Error", message, BackOnPress)

ErrorAlert(message) == Alert("Error", message, NoOnPress)

\* error instanceof Error ? error.message : "Failed to submit review. Please try again."
CaughtMessage(ex) ==
  IF ex.isError THEN ex.message ELSE Text("Failed to submit review. Please try again.")

----------------------------------------------------------------------------
(* The review editor: CreateReview *)

\* JSON.parse(errorText), or { message: errorText } when it throws
ErrorData(errorText) ==
  IF JsonParses(errorText) THEN JsonParse(errorText) ELSE JObject(TRUE, errorText)

\* The message of the alert shown for a non-2xx response: errorData.message when
\* it is truthy, else the generic message; reading .message of null throws a
\* TypeError, which the catch block surfaces instead.
RejectionMessage(status, body) ==
  LET errorData == ErrorData(body) IN
  IF errorData.type = "null" THEN TypeErrorMessage
  ELSE IF errorData.hasMessage /\ errorData.message # "" THEN Text(errorData.message)
  ELSE ServerErrorMessage(status)

\* the fields of reviewData that the draft decides; no request is built
NoData == [dishes |-> <<>>]
NoResponse == [ok |-> FALSE, status |-> 0, body |-> ""]

\* a slot in which no handleSubmit invocation is suspended
IdleCall ==
  [pc |-> "idle", filledDishes |-> <<>>, session |-> "none", sessionError |-> FALSE,
   reviewData |-> NoData, response |-> NoResponse]

CallIds == 1..MaxCalls
Sessions == {"valid", "null"}

\* mutant: the submit control stays enabled during a submission
SubmitEnabledAlways == TRUE

\* <Pressable onPress={handleSubmit} disabled={isSubmitting}>
SubmitEnabled == ~isSubmitting

\* mutant: a missing session is let through
SessionRejectedNever(session, sessionError) == FALSE

\* if (sessionError || !session)
SessionRejected(session, sessionError) == sessionError \/ session = "null"

\* mutant: the finally block is missing
FinallyMissing == isSubmitting

\* finally { setIsSubmitting(false) }: the value isSubmitting is left with
Finally == FALSE

\* if (rating === 0)
RatingMissing(r) == r = 0

\* the user input is reachable: the screen is shown and no alert covers it
Interactive == mounted /\ alerts = <<>>

addAnotherDish ==
  /\ Interactive
  /\ Len(dishes) < MaxDishes
  /\ dishes' = Append(dishes, <<>>)
  /\ UNCHANGED <<rating, isSubmitting, mounted, calls, alerts, goBacks, feedVars, dateVars>>

updateDish(index, name) ==
  /\ Interactive
  /\ index \in 1..Len(dishes)
  /\ dishes' = [i \in 1..Len(dishes) |-> IF i = index THEN name ELSE dishes[i]]
  /\ UNCHANGED <<rating, isSubmitting, mounted, calls, alerts, goBacks, feedVars, dateVars>>

\* mutant: the remove control is rendered on the only slot too
RemoveControlShownAlways == TRUE

\* {dishes.length > 1 && <Pressable onPress={() => removeDish(index)}>}
RemoveControlShown == Len(dishes) > 1

removeDish(index) ==
  /\ Interactive
  /\ RemoveControlShown
  /\ index \in 1..Len(dishes)
  /\ dishes' = [i \in 1..(Len(dishes) - 1) |-> IF i < index THEN dishes[i] ELSE dishes[i + 1]]
  /\ UNCHANGED <<rating, isSubmitting, mounted, calls, alerts, goBacks, feedVars, dateVars>>

setRating(star) ==
  /\ Interactive
  /\ rating' = star
  /\ UNCHANGED <<dishes, isSubmitting, mounted, calls, alerts, goBacks, feedVars, dateVars>>

\* A press of the submit control: handleSubmit up to its first await.
handleSubmit(c) ==
  /\ Interactive
  /\ SubmitEnabled
  /\ calls[c].pc = "idle"
  /\ \A b \in 1..(c - 1) : calls[b].pc # "idle"
  /\ LET filledDishes == FilledDishes(dishes) IN
     IF Len(filledDishes) = 0
     THEN /\ alerts' = Append(alerts, EmptyDishListAlert)
          /\ UNCHANGED <<calls, isSubmitting>>
     ELSE IF RatingMissing(rating)
     THEN /\ alerts' = Append(alerts, NoRatingAlert)
          /\ UNCHANGED <<calls, isSubmitting>>
     ELSE /\ isSubmitting' = TRUE
          /\ calls' = [calls EXCEPT ![c] =
                         [IdleCall EXCEPT !.pc = "session",
                                          !.filledDishes = filledDishes]]
          /\ UNCHANGED alerts
  /\ UNCHANGED <<dishes, rating, mounted, goBacks, feedVars, dateVars>>

\* supabase.auth.getSession() resolves; on a session the POST /reviews is sent.
SessionResolves(c, session, sessionError) ==
  /\ calls[c].pc = "session"
  /\ IF SessionRejected(session, sessionError)
     THEN /\ alerts' = Append(alerts, NotAuthenticatedAlert)
          /\ isSubmitting' = FALSE  \* setIsSubmitting(false) before the return, and again in finally
          /\ calls' = [calls EXCEPT ![c] = IdleCall]
     ELSE /\ calls' = [calls EXCEPT ![c] =
                         [@ EXCEPT !.pc = "fetch",
                                   !.session = session,
                                   !.sessionError = sessionError,
                                   !.reviewData = [dishes |-> calls[c].filledDishes]]]
          /\ UNCHANGED <<alerts, isSubmitting>>
  /\ UNCHANGED <<dishes, rating, mounted, goBacks, feedVars, dateVars>>

\* fetch() resolves with a response; the locals of the request are dead from here.
FetchResolves(c, status, body) ==
  /\ calls[c].pc = "fetch"
  /\ calls' = [calls EXCEPT ![c] =
                 [IdleCall EXCEPT !.pc = IF status \in OkStatuses THEN "json" ELSE "text",
                                  !.response = [ok |-> status \in OkStatuses,
                                                status |-> status,
                                                body |-> body]]]
  /\ UNCHANGED <<dishes, rating, isSubmitting, mounted, alerts, goBacks, feedVars, dateVars>>

\* response.text() resolves on a non-2xx response: the error is thrown and caught.
TextResolves(c) ==
  /\ calls[c].pc = "text"
  /\ alerts' = Append(alerts,
                 ErrorAlert(RejectionMessage(calls[c].response.status, calls[c].response.body)))
  /\ isSubmitting' = Finally
  /\ calls' = [calls EXCEPT ![c] = IdleCall]
  /\ UNCHANGED <<dishes, rating, mounted, goBacks, feedVars, dateVars>>

\* response.json() settles on a 2xx response: it rejects when the body is no JSON.
JsonSettles(c) ==
  /\ calls[c].pc = "json"
  /\ alerts' = Append(alerts,
                 IF JsonParses(calls[c].response.body)
                 THEN SuccessAlert
                 ELSE ErrorAlert(SyntaxErrorMessage))
  /\ isSubmitting' = Finally
  /\ calls' = [calls EXCEPT ![c] = IdleCall]
  /\ UNCHANGED <<dishes, rating, mounted, goBacks, feedVars, dateVars>>

\* The pending getSession() or fetch() rejects with ex. (A response is handed over
\* with its body received, so text() resolves, and json() rejects on the parse alone.)
AwaitRejects(c, ex) ==
  /\ calls[c].pc \in {"session", "fetch"}
  /\ alerts' = Append(alerts, ErrorAlert(CaughtMessage(ex)))
  /\ isSubmitting' = Finally
  /\ calls' = [calls EXCEPT ![c] = IdleCall]
  /\ UNCHANGED <<dishes, rating, mounted, goBacks, feedVars, dateVars>>

\* The user presses the button of the alert on display.
DismissAlert ==
  /\ alerts # <<>>
  /\ alerts' = Tail(alerts)
  /\ IF Head(alerts).onPress = BackOnPress
     THEN goBacks' = goBacks + 1 /\ mounted' = FALSE
     ELSE UNCHANGED <<goBacks, mounted>>
  /\ UNCHANGED <<dishes, rating, isSubmitting, calls, feedVars, dateVars>>

\* The header's back and Cancel controls: router.back().
HeaderBack ==
  /\ Interactive
  /\ mounted' = FALSE
  /\ UNCHANGED <<dishes, rating, isSubmitting, calls, alerts, goBacks, feedVars, dateVars>>

EditorInit ==
  /\ dishes = << <<>> >>
  /\ rating = 0
  /\ isSubmitting = FALSE
  /\ mounted = TRUE
  /\ calls = [c \in CallIds |-> IdleCall]
  /\ alerts = <<>>
  /\ goBacks = 0

EditorNext ==
  \/ addAnotherDish
  \/ \E index \in 1..MaxDishes, name \in DishTexts : updateDish(index, name)
  \/ \E index \in 1..MaxDishes : removeDish(index)
  \/ \E star \in Stars : setRating(star)
  \/ \E c \in CallIds : handleSubmit(c)
  \/ \E c \in CallIds, session \in Sessions, sessionError \in BOOLEAN :
       SessionResolves(c, session, sessionError)
  \/ \E c \in CallIds, status \in OkStatuses \cup ErrStatuses, body \in Bodies :
       FetchResolves(c, status, body)
  \/ \E c \in CallIds : TextResolves(c)
  \/ \E c \in CallIds : JsonSettles(c)
  \/ \E c \in CallIds, ex \in Thrown : AwaitRejects(c, ex)
  \/ DismissAlert
  \/ HeaderBack

----------------------------------------------------------------------------
(* The friends feed: HomeTab *)

FeedIds == 1..MaxFeedCalls

\* the arrays GET /reviews/feed is followed to return (reviews named by id)
FeedArrays == { <<>>, <<"r1">>, <<"r2">>, <<"r1", "r2">>, <<"r2", "r1">> }

NoFeedResponse == [ok |-> FALSE, parses |-> FALSE, data |-> <<>>]

\* a non-2xx response, a 2xx response whose body is no JSON, a 2xx response
\* with an array
FeedResponses ==
  {NoFeedResponse, [ok |-> TRUE, parses |-> FALSE, data |-> <<>>]}
  \cup {[ok |-> TRUE, parses |-> TRUE, data |-> a] : a \in FeedArrays}

IdleFeedCall == [pc |-> "idle", mode |-> "none", token |-> "none", response |-> NoFeedResponse]

\* mutant: the new page is appended to the held list
SetReviewsAppend(prev, feedData) == prev \o feedData

\* setReviews(feedData)
SetReviews(prev, feedData) == feedData

\* mutant: the finally block leaves refreshing alone
FeedFinallyRefreshingKept == refreshing

\* finally { setRefreshing(false) }
FeedFinallyRefreshing == FALSE

\* finally { setLoading(false) }
FeedFinallyLoading == FALSE

\* useEffect(() => { fetchFriendsReviews() }, []): the initial load starts.
useEffectMount(c) ==
  /\ feedCalls[c].pc = "start"
  /\ feedCalls' = [feedCalls EXCEPT ![c] = [@ EXCEPT !.pc = "session"]]
  /\ UNCHANGED <<reviews, loading, refreshing, lastLoaded, editorVars, dateVars>>

\* Pull to refresh; the list, and its RefreshControl, is rendered once loading is false.
onRefresh(c) ==
  /\ ~loading
  /\ feedCalls[c].pc = "idle"
  /\ \A b \in 1..(c - 1) : feedCalls[b].pc # "idle"
  /\ refreshing' = TRUE
  /\ feedCalls' = [feedCalls EXCEPT ![c] =
                     [IdleFeedCall EXCEPT !.pc = "session", !.mode = "refresh"]]
  /\ UNCHANGED <<reviews, loading, lastLoaded, editorVars, dateVars>>

\* getSession() resolves; the GET is sent whether or not there is a token.
FeedSessionResolves(c, session) ==
  /\ feedCalls[c].pc = "session"
  /\ feedCalls' = [feedCalls EXCEPT ![c] =
                     [@ EXCEPT !.pc = "fetch",
                               !.token = IF session = "valid" THEN "token" ELSE "undefined"]]
  /\ UNCHANGED <<reviews, loading, refreshing, lastLoaded, editorVars, dateVars>>

\* fetch() resolves: a 2xx response is read as JSON, any other ends the load.
FeedFetchResolves(c, response) ==
  /\ feedCalls[c].pc = "fetch"
  /\ IF response.ok
     THEN /\ feedCalls' = [feedCalls EXCEPT ![c] =
                             [@ EXCEPT !.pc = "json", !.response = response]]
          /\ UNCHANGED <<loading, refreshing>>
     ELSE /\ feedCalls' = [feedCalls EXCEPT ![c] = IdleFeedCall]
          /\ loading' = FeedFinallyLoading
          /\ refreshing' = FeedFinallyRefreshing
  /\ UNCHANGED <<reviews, lastLoaded, editorVars, dateVars>>

\* res.json() settles: the list is replaced, or the rejection is logged.
FeedJsonSettles(c) ==
  /\ feedCalls[c].pc = "json"
  /\ IF feedCalls[c].response.parses
     THEN /\ reviews' = SetReviews(reviews, feedCalls[c].response.data)
          /\ lastLoaded' = feedCalls[c].response.data
     ELSE UNCHANGED <<reviews, lastLoaded>>
  /\ feedCalls' = [feedCalls EXCEPT ![c] = IdleFeedCall]
  /\ loading' = FeedFinallyLoading
  /\ refreshing' = FeedFinallyRefreshing
  /\ UNCHANGED <<editorVars, dateVars>>

\* The pending getSession() or fetch() rejects: logged, then finally.
FeedAwaitRejects(c) ==
  /\ feedCalls[c].pc \in {"session", "fetch"}
  /\ feedCalls' = [feedCalls EXCEPT ![c] = IdleFeedCall]
  /\ loading' = FeedFinallyLoading
  /\ refreshing' = FeedFinallyRefreshing
  /\ UNCHANGED <<reviews, lastLoaded, editorVars, dateVars>>

FeedInit ==
  /\ reviews = <<>>
  /\ loading = TRUE
  /\ refreshing = FALSE
  /\ feedCalls = [c \in FeedIds |->
                    IF c = 1
                    THEN [IdleFeedCall EXCEPT !.pc = "start", !.mode = "initial"]
                    ELSE IdleFeedCall]
  /\ lastLoaded = <<>>

FeedNext ==
  \/ \E c \in FeedIds : useEffectMount(c)
  \/ \E c \in FeedIds : onRefresh(c)
  \/ \E c \in FeedIds, session \in Sessions : FeedSessionResolves(c, session)
  \/ \E c \in FeedIds, response \in FeedResponses : FeedFetchResolves(c, response)
  \/ \E c \in FeedIds : FeedJsonSettles(c)
  \/ \E c \in FeedIds : FeedAwaitRejects(c)

----------------------------------------------------------------------------
(* The feed's date label: formatDate *)

MsPerHour == 1000 * 60 * 60
MsPerDay == 1000 * 60 * 60 * 24

Abs(x) == IF x < 0 THEN -x ELSE x

\* mutant: the quotient is rounded down
CeilDivFloor(a, b) == a \div b

\* Math.ceil(a / b), for a >= 0 and b > 0
CeilDiv(a, b) == (a + b - 1) \div b

Label(kind, n, day) == [kind |-> kind, n |-> n, day |-> day]
NoLabel == Label("none", 0, 0)

\* date.toLocaleDateString(): the calendar day of the date (UTC, day 0 = the epoch)
ToLocaleDateString(date) == Label("date", 0, date \div MsPerDay)

formatDate(date, clock) ==
  LET diffTime == Abs(clock - date)
      diffDays == CeilDiv(diffTime, MsPerDay)
  IN  IF diffDays = 0 THEN Label("Today", 0, 0)
      ELSE IF diffDays = 1 THEN Label("Yesterday", 0, 0)
      ELSE IF diffDays < 7 THEN Label("days ago", diffDays, 0)
      ELSE ToLocaleDateString(date)

\* the distances between createdAt and now that are tried, in ms
Elapsed ==
  {d * MsPerDay + o : d \in 0..MaxDays, o \in {0, 1, MsPerHour, MsPerDay - 1}}

\* The card of a review is rendered: {formatDate(item.createdAt)}.
RenderDate ==
  /\ label = NoLabel
  /\ label' = formatDate(createdAt, now)
  /\ UNCHANGED <<createdAt, now, editorVars, feedVars>>

DateInit ==
  /\ now = (MaxDays + 1) * MsPerDay
  /\ createdAt \in {now - e : e \in Elapsed} \cup {now + e : e \in Elapsed}
  /\ label = NoLabel

\* no card is rendered
DateRest ==
  /\ now = 0
  /\ createdAt = 0
  /\ label = NoLabel

----------------------------------------------------------------------------
(* Specifications: one per screen, and the date label on its own *)

Init == EditorInit /\ FeedInit /\ DateRest
Next == EditorNext
Spec == Init /\ [][Next]_vars

FeedSpec == Init /\ [][FeedNext]_vars

RenderInit == EditorInit /\ FeedInit /\ DateInit
DateSpec == RenderInit /\ [][RenderDate]_vars

----------------------------------------------------------------------------
(* Vocabulary of the properties *)

\* a dish name with nothing but whitespace in it
Blank(d) == \A k \in 1..Len(d) : d[k] \in Whitespace

AllBlank(ds) == \A i \in 1..Len(ds) : Blank(ds[i])

\* the step moves invocation c to position p
Entered(c, p) == calls[c].pc # p /\ calls'[c].pc = p

\* the step ends invocation c
Exited(c) == calls[c].pc # "idle" /\ calls'[c].pc = "idle"

\* the step puts one more alert on display
Surfaces == Len(alerts') = Len(alerts) + 1

\* the step puts alert a on display
Shown(a) == Surfaces /\ alerts'[Len(alerts')] = a

\* the step is the user's dismissal of the alert on display
Dismisses == alerts # <<>> /\ alerts' = Tail(alerts)

NoCallPending == \A c \in CallIds : calls[c].pc = "idle"

\* sub is ds without its blank entries: same order, each entry as it is in ds
IsNonBlankSubsequence(sub, ds) ==
  \E f \in [1..Len(sub) -> 1..Len(ds)] :
    /\ \A i, j \in 1..Len(sub) : i < j => f[i] < f[j]
    /\ \A i \in 1..Len(sub) : sub[i] = ds[f[i]]
    /\ \A j \in 1..Len(ds) : (\E i \in 1..Len(sub) : f[i] = j) <=> ~Blank(ds[j])

----------------------------------------------------------------------------
(* C1 *)

\* C1: a press of submit passes the gate only with a non-blank dish and a rating
\* other than 0 at that moment, and POST /reviews is sent only by an invocation
\* that passed the gate and then got a session without error. All dishes blank
\* gives the EmptyDishList notice; else rating 0 gives the NoRating notice; a
\* missing or errored session gives the NotAuthenticated notice; in these three
\* cases no request is sent.
C1_PostOnlyWhenValid ==
  [][ /\ \A c \in CallIds :
           /\ Entered(c, "session") => ~AllBlank(dishes) /\ rating # 0
           /\ Entered(c, "fetch") =>
                /\ calls[c].pc = "session"
                /\ calls'[c].session = "valid"
                /\ ~calls'[c].sessionError
      /\ Shown(EmptyDishListAlert) => AllBlank(dishes) /\ calls' = calls
      /\ Shown(NoRatingAlert) => ~AllBlank(dishes) /\ rating = 0 /\ calls' = calls
      /\ Shown(NotAuthenticatedAlert) =>
           /\ \E c \in CallIds : calls[c].pc = "session" /\ Exited(c)
           /\ \A c \in CallIds : ~Entered(c, "fetch")
    ]_vars

\* POST /reviews is in flight for a draft that has a blank slot beside a filled one
C1_Witness ==
  \E c \in CallIds :
    /\ calls[c].pc = "fetch"
    /\ calls[c].session = "valid"
    /\ Len(calls[c].reviewData.dishes) < Len(dishes)

----------------------------------------------------------------------------
(* C2 *)

\* C2, as amended: when response.json() settles on a 2xx response whose body
\* parses as JSON, isSubmitting is false again and the success notice is shown;
\* the success notice is shown for nothing else; dismissing it issues one "go
\* back" signal, and nothing else in the submission issues one.
C2_ParsedSuccessGoesBackOnce ==
  [][ /\ \A c \in CallIds :
           (calls[c].pc = "json" /\ calls'[c].pc # "json"
              /\ JsonParses(calls[c].response.body))
           => (isSubmitting' = FALSE /\ Shown(SuccessAlert))
      /\ (Surfaces /\ alerts'[Len(alerts')].title = "Success") =>
           \E c \in CallIds :
             calls[c].pc = "json" /\ Exited(c) /\ JsonParses(calls[c].response.body)
      /\ (Dismisses /\ Head(alerts).title = "Success") => goBacks' = goBacks + 1
      /\ goBacks' # goBacks =>
           (Dismisses /\ Head(alerts).title = "Success" /\ goBacks' = goBacks + 1)
    ]_vars

\* the success notice has been acknowledged: one signal, and the flag is down
C2_Witness ==
  /\ goBacks = 1
  /\ alerts = <<>>
  /\ ~isSubmitting
  /\ NoCallPending

\* C2 as claimed: whatever the body of the 2xx response, isSubmitting is false
\* again and the success notice (whose acknowledgment goes back) is shown.
C2_AnyBodySucceeds ==
  [][ \A c \in CallIds :
        (calls[c].pc = "json" /\ calls'[c].pc # "json")
        => (isSubmitting' = FALSE /\ Shown(SuccessAlert))
    ]_vars

----------------------------------------------------------------------------
(* C3 *)

\* C3: a step that surfaces a failure notice (any notice but the success one)
\* leaves dishes and rating as they are, leaves isSubmitting false and issues no
\* "go back"; the dismissal of a failure notice changes none of them either.
C3_FailureKeepsDraft ==
  [][ /\ (Surfaces /\ alerts'[Len(alerts')].title # "Success") =>
           /\ dishes' = dishes
           /\ rating' = rating
           /\ isSubmitting' = FALSE
           /\ goBacks' = goBacks
           /\ mounted' = mounted
      /\ (Dismisses /\ Head(alerts).title # "Success") =>
           UNCHANGED <<dishes, rating, isSubmitting, goBacks, mounted>>
    ]_vars

\* a server rejection is on display over a draft that is still filled in
C3_Witness ==
  /\ alerts = <<ErrorAlert(Text("Duplicate review"))>>
  /\ dishes = << <<"F">>, <<" ", "B", " ">> >>
  /\ rating = 4
  /\ ~isSubmitting
  /\ goBacks = 0

----------------------------------------------------------------------------
(* C4 *)

\* C4: isSubmitting is true only while an invocation of handleSubmit is pending:
\* once every pending lookup and request has completed, by any exit, it is false.
C4_SubmittingOnlyWhilePending == isSubmitting => ~NoCallPending

\* an invocation has ended in the catch block, by a thrown value that is no Error
C4_Witness ==
  /\ alerts = <<ErrorAlert(CaughtMessage(NonError))>>
  /\ NoCallPending
  /\ ~isSubmitting

----------------------------------------------------------------------------
(* C5 *)

\* C5: for every non-2xx response the message surfaced is the body's message
\* field when the body parses as JSON and carries one, the raw body when it does
\* not parse, and the generic "Server error" message when the parsed body carries
\* no message field, for every body, JSON bodies that are not objects included.
\* Stated here for the bodies of the last case: a non-2xx response whose body
\* parses as JSON and carries no message field surfaces the generic message.
C5_GenericWhenNoMessageField ==
  [][ \A c \in CallIds :
        (calls[c].pc = "text" /\ calls'[c].pc # "text"
           /\ JsonParses(calls[c].response.body)
           /\ ~JsonParse(calls[c].response.body).hasMessage)
        => Shown(ErrorAlert(ServerErrorMessage(calls[c].response.status)))
    ]_vars

----------------------------------------------------------------------------
(* C6 *)

\* C6: the filledDishes a press of submit takes are the draft's dishes of that
\* moment without the blank entries, in order and verbatim; they stay as taken
\* while the session is looked up, whatever the user edits; the dishes of the
\* payload sent are those; filtering them again changes nothing.
C6_PayloadDishes ==
  [][ \A c \in CallIds :
        /\ Entered(c, "session") =>
             IsNonBlankSubsequence(calls'[c].filledDishes, dishes)
        /\ (calls[c].pc = "session" /\ calls'[c].pc \in {"session", "fetch"}) =>
             calls'[c].filledDishes = calls[c].filledDishes
        /\ Entered(c, "fetch") =>
             /\ calls'[c].reviewData.dishes = calls[c].filledDishes
             /\ FilledDishes(calls'[c].reviewData.dishes) = calls'[c].reviewData.dishes
    ]_vars

\* the payload in flight for the draft ["F", "", " B "], not yet edited
C6_Witness ==
  \E c \in CallIds :
    /\ calls[c].pc = "fetch"
    /\ dishes = << <<"F">>, <<>>, <<" ", "B", " ">> >>
    /\ calls[c].reviewData.dishes = << <<"F">>, <<" ", "B", " ">> >>

----------------------------------------------------------------------------
(* C7 *)

\* C7: the held list is the array of the most recently completed successful
\* load, and the empty list before any: failed loads leave it, successful ones
\* replace it.
C7_ListIsLastLoaded == reviews = lastLoaded

NoFeedCallPending == \A c \in FeedIds : feedCalls[c].pc = "idle"

\* a load has replaced the list, and a refresh that will fail is pending over it
C7_Witness ==
  /\ reviews = <<"r2", "r1">>
  /\ ~loading
  /\ \E c \in FeedIds :
       /\ feedCalls[c].pc = "json"
       /\ feedCalls[c].mode = "refresh"
       /\ ~feedCalls[c].response.parses

----------------------------------------------------------------------------
(* C8 *)

\* C8: a step that ends a feed load leaves the flag of its mode false (loading
\* for the initial load, refreshing for a refresh), and whenever no load is
\* pending after a step, loading and refreshing are both false.
C8_FlagsCleared ==
  [][ /\ \A c \in FeedIds :
           (feedCalls[c].pc # "idle" /\ feedCalls'[c].pc = "idle") =>
             IF feedCalls[c].mode = "initial" THEN ~loading' ELSE ~refreshing'
      /\ (\A c \in FeedIds : feedCalls'[c].pc = "idle") => (~loading' /\ ~refreshing')
    ]_vars

\* the loads are over, the last one with an empty array: the empty state
C8_Witness ==
  /\ NoFeedCallPending
  /\ ~loading
  /\ ~refreshing
  /\ reviews = <<>>

----------------------------------------------------------------------------
(* C9 *)

\* the least number of whole days that cover the time between the two instants
WholeDaysCeiling(date, clock) ==
  CHOOSE n \in 0..(2 * MaxDays + 2) :
    /\ n * MsPerDay >= Abs(clock - date)
    /\ \A m \in 0..(2 * MaxDays + 2) : m * MsPerDay >= Abs(clock - date) => n <= m

\* C9: the label rendered is "Today" when N = 0, "Yesterday" when N = 1,
\* "<N> days ago" when 2 <= N < 7 and the localized date when N >= 7, N being
\* the ceiling of the time between createdAt and now in whole days.
C9_LabelByCeiling ==
  label # NoLabel =>
    LET N == WholeDaysCeiling(createdAt, now) IN
      /\ N = 0 => label = Label("Today", 0, 0)
      /\ N = 1 => label = Label("Yesterday", 0, 0)
      /\ (2 <= N /\ N < 7) => label = Label("days ago", N, 0)
      /\ N >= 7 => label = ToLocaleDateString(createdAt)

\* exactly 25 hours before now is rendered "2 days ago"
C9_Witness ==
  /\ now - createdAt = 25 * MsPerHour
  /\ label = Label("days ago", 2, 0)

----------------------------------------------------------------------------
(* C10 *)

\* C10: at most one invocation of handleSubmit is pending at a time, so no
\* second POST /reviews is sent before the earlier submission has ended.
C10_OneSubmissionInFlight ==
  Cardinality({c \in CallIds : calls[c].pc # "idle"}) <= 1

\* a request is in flight while the screen is shown and nothing covers the
\* submit control: only its disabled state keeps a second press out
C10_Witness ==
  /\ Interactive
  /\ isSubmitting
  /\ \E c \in CallIds : calls[c].pc = "fetch"
  /\ ~AllBlank(dishes)
  /\ rating # 0

----------------------------------------------------------------------------
(* C11 *)

\* C11: the editor starts with exactly one empty dish slot, and after any
\* sequence of the add, update and remove actions its controls offer, dishes
\* holds at least one slot.
C11_AtLeastOneSlot ==
  /\ dishes = << <<>> >>
  /\ [](Len(dishes) >= 1)

\* slots have been added and filled, and removed again down to the last one,
\* where the remove control is no longer offered
C11_Witness ==
  /\ Interactive
  /\ dishes = << <<" ", "B", " ">> >>
  /\ ~RemoveControlShown

====
